---- MODULE Spec2Model ----
(***************************************************************************)
(* A model of the GrabCAD synchroniser: Filesystem.file_changes,           *)
(* Filesystem.pull and Filesystem._remove_files (src/filesystem.py),       *)
(* GrabCadAPI.download_files and GrabCadAPI.get_project_tree (src/api.py), *)
(* State (src/state.py), the file entities and BatchDownloadProgress       *)
(* (src/entities/files.py).                                                *)
(*                                                                         *)
(* Conventions.  A path is a sequence of path components; a file's content *)
(* is a string token and NoFile stands for "no file at that path".  The    *)
(* fields name, message and author of a Commit, last_update, size,         *)
(* version_list and root_directory of a file are never read by the         *)
(* modelled decisions and are left out of the records; so is the argument  *)
(* quiet of pull, which only selects what is printed.  The source calls    *)
(* api.a_get_file_info and api.a_get_folder_info; they are taken to be     *)
(* GrabCadAPI.get_file_info and GrabCadAPI.get_folder_info.  A pull that   *)
(* raises ends the program (pygc.py:154), and the downloads it left        *)
(* unfinished end with the event loop.                                     *)
(***************************************************************************)
EXTENDS Integers, Sequences, FiniteSets, TLC

(***************************************************************************)
(* Bounds of the model.                                                    *)
(***************************************************************************)
MaxAggChanges == 3
MaxCommits == 2
MaxPulls == 2
MaxEdits == 2
MaxBatch == 2
MaxNodes == 3

(***************************************************************************)
(* entities/grabcad.py: ChangeCode                                         *)
(***************************************************************************)
ADDED == "ADDED"
UPDATED == "UPDATED"
DELETED == "DELETED"
ChangeCode == {ADDED, UPDATED, DELETED}

(***************************************************************************)
(* Generic sequence helpers.                                               *)
(***************************************************************************)
Range(s) == {s[i] : i \in 1..Len(s)}

RECURSIVE SeqsUpTo(_, _)
SeqsUpTo(S, n) ==
    IF n = 0 THEN {<<>>}
    ELSE LET shorter == SeqsUpTo(S, n - 1)
         IN  shorter \cup {Append(s, x) : s \in {t \in shorter : Len(t) = n - 1}, x \in S}

RECURSIVE Concat(_)
Concat(ss) == IF ss = <<>> THEN <<>> ELSE Head(ss) \o Concat(Tail(ss))

(***************************************************************************)
(* Filesystem.file_changes.  changed_files is a Python dict: it keeps its  *)
(* keys in the order of first insertion, and assigning to an existing key  *)
(* keeps the key's position.  It is modelled as the sequence of its        *)
(* values, keyed by file.item_id.                                          *)
(***************************************************************************)
DictIndex(changed_files, item_id) ==
    {i \in 1..Len(changed_files) : changed_files[i].file.item_id = item_id}

DictHas(changed_files, item_id) == DictIndex(changed_files, item_id) # {}

DictGet(changed_files, item_id) ==
    changed_files[CHOOSE i \in DictIndex(changed_files, item_id) : TRUE]

DictPut(changed_files, change) ==
    IF DictHas(changed_files, change.file.item_id)
    THEN [i \in 1..Len(changed_files) |->
            IF changed_files[i].file.item_id = change.file.item_id
            THEN change ELSE changed_files[i]]
    ELSE Append(changed_files, change)

\* A slip that drops the version comparison: the last change seen wins.
ReplacesEntryLastWins(changed_files, change) == TRUE

\* filesystem.py:41-44, the condition under which a change enters the dict
ReplacesEntry(changed_files, change) ==
    \/ /\ DictHas(changed_files, change.file.item_id)
       /\ change.file.last_version >
              DictGet(changed_files, change.file.item_id).file.last_version
    \/ ~DictHas(changed_files, change.file.item_id)

RECURSIVE FoldChanges(_, _)
FoldChanges(changes, changed_files) ==
    IF changes = <<>> THEN changed_files
    ELSE FoldChanges(Tail(changes),
                     IF ReplacesEntry(changed_files, Head(changes))
                     THEN DictPut(changed_files, Head(changes))
                     ELSE changed_files)

AllChanges(cs) == Concat([i \in 1..Len(cs) |-> cs[i].changes])

FilesOf(changes) == [i \in 1..Len(changes) |-> changes[i].file]

file_changes(cs) ==
    LET changed_files == FoldChanges(AllChanges(cs), <<>>)
    IN  [changed |-> FilesOf(SelectSeq(changed_files,
                                 LAMBDA x : x.change_code # DELETED)),
         deleted |-> FilesOf(SelectSeq(changed_files,
                                 LAMBDA x : x.change_code = DELETED))]

(***************************************************************************)
(* The changes the commits of the aggregation are drawn from.              *)
(***************************************************************************)
AggItems == {1, 2}
AggVersions == {1, 2}
AggChange ==
    {[file |-> [item_id |-> i, filename |-> "f", path |-> <<"proj">>,
                last_version |-> v],
      change_code |-> c] : i \in AggItems, v \in AggVersions, c \in ChangeCode}

(***************************************************************************)
(* entities/files.py.  A remote path names the project's root folder       *)
(* first; path_without_root_folder drops that first component.  A path on  *)
(* disk is written relative to api.root_folder.                            *)
(***************************************************************************)
path_without_root_folder(path) == IF path = <<>> THEN <<>> ELSE Tail(path)

\* File.full_path: root_directory / path_without_root_folder / filename
full_path(file) == path_without_root_folder(file.path) \o <<file.filename>>

\* os.path.normpath: empty and "." components vanish
normpath(path) == SelectSeq(path, LAMBDA c : c # "" /\ c # ".")

\* BaseNode.full_path of a LocalFileShort: path / filename
local_full_path(node) == node.path \o <<node.filename>>

NoFile == "<absent>"

\* DigestNode._file_digest: '' for a missing file, else the md5 hex digest,
\* modelled as an injective tag of the content
file_digest(d, path) == IF d[path] = NoFile THEN "" ELSE "md5:" \o d[path]

(***************************************************************************)
(* The remote project: three files and the commits of its history.  The    *)
(* server answers get_file_info with the file's newest version, whose      *)
(* content is RemoteContent.                                               *)
(***************************************************************************)
FileShort(item_id, filename, path, last_version) ==
    [item_id |-> item_id, filename |-> filename, path |-> path,
     last_version |-> last_version]

Change(file, change_code) == [file |-> file, change_code |-> change_code]

Commit(commit_id, created_at, changes) ==
    [commit_id |-> commit_id, created_at |-> created_at, changes |-> changes]

RemoteCommits ==
    <<Commit(1, 1, <<Change(FileShort(1, "f", <<"proj">>, 1), ADDED),
                     Change(FileShort(3, "g", <<"proj", "sub">>, 1), ADDED)>>),
      Commit(2, 2, <<Change(FileShort(1, "f", <<"proj">>, 2), UPDATED)>>),
      Commit(3, 3, <<Change(FileShort(2, "f", <<"proj", "sub">>, 1), ADDED),
                     Change(FileShort(3, "g", <<"proj", "sub">>, 1), DELETED)>>)>>

RemoteFiles == {ch.file : ch \in Range(AllChanges(RemoteCommits))}

DiskPaths == {normpath(full_path(f)) : f \in RemoteFiles}

SubDirs == {SubSeq(p, 1, Len(p) - 1) : p \in DiskPaths} \ {<<>>}

EditContents == {"e1", "e2"}

RemoteContent(item_id, version) == "i" \o ToString(item_id) \o "v" \o ToString(version)

\* GrabCadAPI.get_file_info: the server's descriptor of the file
get_file_info(item_id) ==
    LET known == {f \in RemoteFiles : f.item_id = item_id}
    IN  CHOOSE f \in known : \A g \in known : g.last_version <= f.last_version

\* File.from_short_file
from_short_file(file) == get_file_info(file.item_id)

\* the commit lists handed to Filesystem.pull by a direct caller
PullInputs ==
    {cs \in SeqsUpTo(Range(RemoteCommits), MaxCommits) :
        \A i, j \in 1..Len(cs) : i # j => cs[i] # cs[j]}

DefaultBatchSize == 50
EpochStart == 0

(***************************************************************************)
(* State.                                                                  *)
(***************************************************************************)
VARIABLES
    disk,               \* the working directory: path -> content or NoFile
    dirs,               \* the sub-directories that exist under root_folder
    local_commits,      \* State.local_commits, the ledger
    pc,                 \* where the running pull stands
    commits, force, batch_size,     \* the arguments of the running pull
    local_files,        \* pull: digest -> LocalFileShort
    local_committed_files,          \* pull: the digests of the baseline
    remote_update, remote_delete,   \* pull
    local_changes,      \* pull: filename -> LocalFileShort
    overwriting_changes,            \* pull: dict filename -> File, as a sequence
    files_to_download, batches,     \* pull
    batch_no,           \* the batch handed to download_files, 0 before the first
    started, completed, \* download_file tasks <<batch, position>> begun and ended
    not_downloaded,     \* what pull returned
    failure,            \* the operation of the running pull that raised
    ledger_before, disk_before,     \* the ledger and the disk when the pull began
    groups,             \* the calls of download_files made by the running pull
    pulls, edits        \* how many pulls and hand edits have happened

pullVars ==
    <<disk, dirs, local_commits, pc, commits, force, batch_size, local_files,
      local_committed_files, local_changes, remote_update, remote_delete,
      overwriting_changes, files_to_download, batches, batch_no, started,
      completed, not_downloaded, failure, ledger_before, disk_before, groups, pulls, edits>>

VARIABLES aggCommits, aggResult, aggPc

aggVars == <<aggCommits, aggResult, aggPc>>

VARIABLES
    tree,               \* the remote project tree
    wpc,                \* where get_project_tree stands
    to_visit, buff,     \* lists of <<parent folder, child Triplet>>
    pending,            \* the fetch_children tasks of the gather still awaiting
    children,           \* Folder.children of every Folder object made
    rounds              \* the gathers run so far

walkVars == <<tree, wpc, to_visit, buff, pending, children, rounds>>

VARIABLES
    diff_other,             \* the commit list State.diff was called with
    local_not_in_remote,    \* the two lists it returned, as sets
    remote_not_in_local

diffVars == <<diff_other, local_not_in_remote, remote_not_in_local>>

VARIABLES
    expected_batch_size, increment, quiet,      \* BatchDownloadProgress, its fields
    downloads,                                  \* filename -> FileDownloadProgress
    last_progress, is_first_render, total_downloaded, total_size,
    tpc,                \* "filling": the batch is registered; "running": it downloads
    file_name, file_size,   \* the files of the batch, by download task
    added,              \* the tasks whose file is registered
    received,           \* the bytes each task has reported
    rendered,           \* what the call of render just made printed, "-" after other calls
    out                 \* what render has printed so far

progVars ==
    <<expected_batch_size, increment, quiet, downloads, last_progress,
      is_first_render, total_downloaded, total_size, tpc, file_name, file_size,
      added, received, rendered, out>>

vars == <<pullVars, aggVars, walkVars, diffVars, progVars>>

DiffIdle ==
    /\ diff_other = <<>>
    /\ local_not_in_remote = {}
    /\ remote_not_in_local = {}

NoResult == [changed |-> <<>>, deleted |-> <<>>]

\* a caller holds two commits, still without changes
AggInit ==
    /\ aggCommits = <<[commit_id |-> 1, created_at |-> 1, changes |-> <<>>],
                      [commit_id |-> 2, created_at |-> 2, changes |-> <<>>]>>
    /\ aggResult = NoResult
    /\ aggPc = "build"

AggIdle ==
    /\ aggCommits = <<>>
    /\ aggResult = NoResult
    /\ aggPc = "off"

\* the caller puts one more change into one of the commits
AggAppend ==
    /\ aggPc = "build"
    /\ Len(AllChanges(aggCommits)) < MaxAggChanges
    /\ \E k \in 1..Len(aggCommits), ch \in AggChange :
          aggCommits' = [aggCommits EXCEPT ![k].changes = Append(@, ch)]
    /\ UNCHANGED <<aggResult, aggPc>>
    /\ UNCHANGED <<pullVars, walkVars, diffVars, progVars>>

\* one call of Filesystem.file_changes(aggCommits)
AggApply ==
    /\ aggPc = "build"
    /\ aggResult' = file_changes(aggCommits)
    /\ aggPc' = "done"
    /\ UNCHANGED aggCommits
    /\ UNCHANGED <<pullVars, walkVars, diffVars, progVars>>

(***************************************************************************)
(* Filesystem.local_file_list and the dictionaries pull builds from it.    *)
(***************************************************************************)
DirOf(path) == SubSeq(path, 1, Len(path) - 1)

LocalFileShort(d, path) ==
    [filename |-> path[Len(path)], path |-> DirOf(path),
     digest |-> file_digest(d, path)]

\* glob lists the files that exist; its order is the directory's, unspecified
local_file_list(d) == {LocalFileShort(d, p) : p \in {q \in DiskPaths : d[q] # NoFile}}

\* filesystem.py:53-55: {x.digest: x for x in local_file_list}; of the files
\* that share a digest the one glob lists last stays
LocalFilesDicts(d) ==
    LET digests == {x.digest : x \in local_file_list(d)}
    IN  {m \in [digests -> local_file_list(d)] : \A k \in digests : m[k].digest = k}

\* filesystem.py:57-59: the keys of local_committed_files
BaselineDigests(ledger) == {x.digest : x \in Range(file_changes(ledger).changed)}

\* filesystem.py:72-75: local_changes, keyed by filename; of the entries that
\* share a filename the one the set difference yields last stays
LocalChangesDicts(lf, lcf) ==
    LET keys == DOMAIN lf \ lcf
        names == {lf[k].filename : k \in keys}
    IN  {m \in [names -> {lf[k] : k \in keys}] : \A n \in names : m[n].filename = n}

(***************************************************************************)
(* Filesystem._remove_files: os.remove, FileNotFoundError passed over,     *)
(* then os.rmdir of the file's directory, OSError passed over.  The root   *)
(* folder holds the state file and is never empty.                         *)
(***************************************************************************)
DirIsEmpty(d, dir) == \A p \in DiskPaths : DirOf(p) = dir => d[p] = NoFile

RemoveOne(file, fs) ==
    LET dir_path == normpath(path_without_root_folder(file.path))
        path == normpath(full_path(file))
        removed == [fs.disk EXCEPT ![path] = NoFile]
    IN  [disk |-> removed,
         dirs |-> IF dir_path \in fs.dirs /\ DirIsEmpty(removed, dir_path)
                  THEN fs.dirs \ {dir_path} ELSE fs.dirs]

\* A slip that lets FileNotFoundError out of the loop: the files after an
\* absent one are not looked at.
RECURSIVE remove_files_raising(_, _)
remove_files_raising(files, fs) ==
    IF files = <<>> THEN fs
    ELSE IF fs.disk[normpath(full_path(Head(files)))] = NoFile THEN fs
    ELSE remove_files_raising(Tail(files), RemoveOne(Head(files), fs))

RECURSIVE remove_files(_, _)
remove_files(files, fs) ==
    IF files = <<>> THEN fs
    ELSE remove_files(Tail(files), RemoveOne(Head(files), fs))

(***************************************************************************)
(* Filesystem.pull, lines 76-90.                                           *)
(***************************************************************************)
NameIndex(dict, filename) == {i \in 1..Len(dict) : dict[i].filename = filename}

NameHas(dict, filename) == NameIndex(dict, filename) # {}

NameGet(dict, filename) == dict[CHOOSE i \in NameIndex(dict, filename) : TRUE]

NamePut(dict, file) ==
    IF NameHas(dict, file.filename)
    THEN [i \in 1..Len(dict) |->
            IF dict[i].filename = file.filename THEN file ELSE dict[i]]
    ELSE Append(dict, file)

\* filesystem.py:76-78
RECURSIVE OverwritingChanges(_, _, _)
OverwritingChanges(files, names, dict) ==
    IF files = <<>> THEN dict
    ELSE OverwritingChanges(Tail(files), names,
                            IF Head(files).filename \in names
                            THEN NamePut(dict, Head(files)) ELSE dict)

\* A slip that leaves `force or` out of the condition.
IsDownloadedForceIgnored(file, frc, overwriting) ==
    ~(/\ NameHas(overwriting, file.filename)
      /\ normpath(full_path(file)) =
             normpath(full_path(NameGet(overwriting, file.filename))))

\* A slip that leaves the comparison of the paths out of the condition.
IsDownloadedByNameOnly(file, frc, overwriting) ==
    frc \/ ~NameHas(overwriting, file.filename)

\* filesystem.py:83-84, the condition of the files_to_download comprehension
IsDownloaded(file, frc, overwriting) ==
    frc \/ ~(/\ NameHas(overwriting, file.filename)
             /\ normpath(full_path(file)) =
                    normpath(full_path(NameGet(overwriting, file.filename))))

\* filesystem.py:87-90: files[x:x + batch_size] for x in range(0, len(files), batch_size)
Batches(files, size) ==
    LET starts == {x \in 0..(Len(files) - 1) : x % size = 0}
        End(x) == IF x + size < Len(files) THEN x + size ELSE Len(files)
    IN  [k \in 1..Cardinality(starts) |->
            SubSeq(files, (k - 1) * size + 1, End((k - 1) * size))]

(***************************************************************************)
(* Filesystem.pull, lines 98-105.                                          *)
(***************************************************************************)
\* LocalFile(**asdict(change.file), ...): DigestNode.__post_init__ digests
\* what is on disk at File.full_path
LocalFile(file, d) ==
    [item_id |-> file.item_id, filename |-> file.filename, path |-> file.path,
     last_version |-> file.last_version,
     digest |-> file_digest(d, normpath(full_path(file)))]

ToLocalCommit(commit, d) ==
    [commit EXCEPT !.changes =
        [i \in 1..Len(commit.changes) |->
            [commit.changes[i] EXCEPT !.file = LocalFile(commit.changes[i].file, d)]]]

\* list.sort(key=created_at): stable
RECURSIVE InsertByCreatedAt(_, _)
InsertByCreatedAt(sorted, commit) ==
    IF sorted = <<>> THEN <<commit>>
    ELSE IF sorted[Len(sorted)].created_at <= commit.created_at
         THEN Append(sorted, commit)
         ELSE Append(InsertByCreatedAt(SubSeq(sorted, 1, Len(sorted) - 1), commit),
                     sorted[Len(sorted)])

\* A slip that leaves out the sort: the commits are appended as they came.
SortByCreatedAtLeftOut(cs, sorted) == sorted \o cs

RECURSIVE SortByCreatedAt(_, _)
SortByCreatedAt(cs, sorted) ==
    IF cs = <<>> THEN sorted
    ELSE SortByCreatedAt(Tail(cs), InsertByCreatedAt(sorted, Head(cs)))

(***************************************************************************)
(* State.diff, State.last_local_commit, GrabCadAPI.get_commits_since.      *)
(***************************************************************************)
\* state.py:53-65; the two lists come out of set differences, in any order
State_diff(ledger, other) ==
    LET local_ids == {c.commit_id : c \in Range(ledger)}
        remote_ids == {c.commit_id : c \in Range(other)}
        Last(cs, id) == cs[CHOOSE i \in 1..Len(cs) :
                              /\ cs[i].commit_id = id
                              /\ \A j \in (i + 1)..Len(cs) : cs[j].commit_id # id]
    IN  [local_not_in_remote |-> {Last(ledger, id) : id \in local_ids \ remote_ids},
         remote_not_in_local |-> {Last(other, id) : id \in remote_ids \ local_ids}]

last_local_commit(ledger) ==
    IF ledger # <<>> THEN <<ledger[Len(ledger)]>> ELSE <<>>

\* api.py:212: the commits created at `time` or later
get_commits_since(time) ==
    SelectSeq(RemoteCommits, LAMBDA c : c.created_at >= time)

Orderings(S) == {s \in SeqsUpTo(S, Cardinality(S)) : Range(s) = S}

(***************************************************************************)
(* The actions.                                                            *)
(***************************************************************************)
EmptyDict == [k \in {} |-> k]

PullInit ==
    /\ disk = [p \in DiskPaths |-> NoFile]
    /\ dirs = {}
    /\ local_commits = <<>>
    /\ pc = "idle"
    /\ commits = <<>>
    /\ force = FALSE
    /\ batch_size = DefaultBatchSize
    /\ local_files = EmptyDict
    /\ local_committed_files = {}
    /\ local_changes = EmptyDict
    /\ remote_update = <<>>
    /\ remote_delete = <<>>
    /\ overwriting_changes = <<>>
    /\ files_to_download = <<>>
    /\ batches = <<>>
    /\ batch_no = 0
    /\ started = {}
    /\ completed = {}
    /\ not_downloaded = <<>>
    /\ failure = "none"
    /\ ledger_before = <<>>
    /\ disk_before = [p \in DiskPaths |-> NoFile]
    /\ groups = 0
    /\ pulls = 0
    /\ edits = 0

AtRest == pc = "idle"

\* the user writes a file of the working directory between two pulls
UserEdit ==
    /\ AtRest
    /\ edits < MaxEdits
    /\ \E p \in DiskPaths, c \in EditContents :
          /\ disk[p] # c
          /\ disk' = [disk EXCEPT ![p] = c]
          /\ dirs' = dirs \cup ({DirOf(p)} \ {<<>>})
    /\ edits' = edits + 1
    /\ UNCHANGED <<local_commits, pc, commits, force, batch_size, local_files,
                   local_committed_files, local_changes, remote_update,
                   remote_delete, overwriting_changes, files_to_download, batches,
                   batch_no, started, completed, not_downloaded, failure, ledger_before,
                   disk_before, groups, pulls>>
    /\ UNCHANGED <<aggVars, walkVars, diffVars, progVars>>

\* Filesystem.pull, lines 53-64
PullBegin(cs, frc, size) ==
    /\ AtRest
    /\ pulls < MaxPulls
    /\ commits' = cs
    /\ force' = frc
    /\ batch_size' = size
    /\ local_files' \in LocalFilesDicts(disk)
    /\ local_committed_files' = BaselineDigests(local_commits)
    /\ LET changes == file_changes(cs)
           fs == remove_files(changes.deleted, [disk |-> disk, dirs |-> dirs])
       IN  /\ remote_update' = changes.changed
           /\ remote_delete' = changes.deleted
           /\ disk' = fs.disk
           /\ dirs' = fs.dirs
    /\ pc' = "info"
    /\ ledger_before' = local_commits
    /\ disk_before' = disk
    /\ pulls' = pulls + 1
    /\ UNCHANGED <<local_commits, local_changes, overwriting_changes,
                   files_to_download, batches, batch_no, started, completed, not_downloaded,
                   failure, groups, edits>>
    /\ UNCHANGED <<aggVars, walkVars, diffVars, progVars>>

\* a caller of Filesystem.pull with a commit list of its own
FsPull ==
    \E cs \in PullInputs, frc \in BOOLEAN, size \in 1..MaxBatch :
        PullBegin(cs, frc, size)

\* pygc.pull, lines 65-72
CliPull ==
    LET last_commit == last_local_commit(local_commits)
        fetched == get_commits_since(IF last_commit # <<>>
                                     THEN last_commit[1].created_at
                                     ELSE EpochStart)
    IN  \E cs \in Orderings(State_diff(local_commits, fetched).remote_not_in_local),
           frc \in BOOLEAN :
            PullBegin(cs, frc, DefaultBatchSize)

\* the commit lists the server answers get_commits_since with
RemoteLists == {get_commits_since(time) : time \in 0..(Len(RemoteCommits) + 1)}

\* State.diff, called on the ledger between two pulls
Diff ==
    /\ AtRest
    /\ \E remote \in RemoteLists :
          LET result == State_diff(local_commits, remote)
          IN  /\ diff_other' = remote
              /\ local_not_in_remote' = result.local_not_in_remote
              /\ remote_not_in_local' = result.remote_not_in_local
    /\ pc' = "diffed"
    /\ UNCHANGED <<disk, dirs, local_commits, commits, force, batch_size,
                   local_files, local_committed_files, local_changes,
                   remote_update, remote_delete, overwriting_changes,
                   files_to_download, batches, batch_no, started, completed,
                   not_downloaded, failure, ledger_before, disk_before, groups,
                   pulls, edits>>
    /\ UNCHANGED <<aggVars, walkVars, progVars>>

\* the caller drops the two lists
DiffReturn ==
    /\ pc = "diffed"
    /\ pc' = "idle"
    /\ diff_other' = <<>>
    /\ local_not_in_remote' = {}
    /\ remote_not_in_local' = {}
    /\ UNCHANGED <<disk, dirs, local_commits, commits, force, batch_size,
                   local_files, local_committed_files, local_changes,
                   remote_update, remote_delete, overwriting_changes,
                   files_to_download, batches, batch_no, started, completed,
                   not_downloaded, failure, ledger_before, disk_before, groups,
                   pulls, edits>>
    /\ UNCHANGED <<aggVars, walkVars, progVars>>

\* Filesystem.pull, lines 67-90, every metadata fetch having answered
FetchInfo ==
    /\ pc = "info"
    /\ LET fetched == [i \in 1..Len(remote_update) |->
                          from_short_file(remote_update[i])]
       IN  /\ remote_update' = fetched
           /\ local_changes' \in LocalChangesDicts(local_files, local_committed_files)
           /\ overwriting_changes' =
                  OverwritingChanges(fetched, DOMAIN local_changes', <<>>)
           /\ files_to_download' =
                  SelectSeq(fetched,
                            LAMBDA file : IsDownloaded(file, force, overwriting_changes'))
           /\ batches' = Batches(files_to_download', batch_size)
           /\ pc' = IF batches' = <<>> THEN "commit" ELSE "batch"
    /\ UNCHANGED <<disk, dirs, local_commits, commits, force, batch_size,
                   local_files, local_committed_files, remote_delete, batch_no,
                   started, completed, not_downloaded, failure, ledger_before, disk_before,
                   groups, pulls, edits>>
    /\ UNCHANGED <<aggVars, walkVars, diffVars, progVars>>

\* Filesystem.pull, lines 67-69: a metadata fetch raises out of gather
FetchInfoFail ==
    /\ pc = "info"
    /\ remote_update # <<>>
    /\ pc' = "failed"
    /\ failure' = "info"
    /\ UNCHANGED <<disk, dirs, local_commits, commits, force, batch_size,
                   local_files, local_committed_files, local_changes,
                   remote_update, remote_delete, overwriting_changes,
                   files_to_download, batches, batch_no, started, completed, not_downloaded,
                   ledger_before, disk_before, groups, pulls, edits>>
    /\ UNCHANGED <<aggVars, walkVars, diffVars, progVars>>

\* the download_file tasks of batch k
TasksOf(k) == {<<k, j>> : j \in 1..Len(batches[k])}

Running == started \ completed

\* GrabCadAPI.download_files: gather starts one download_file per file
BatchStart ==
    /\ pc = "batch"
    /\ batch_no' = batch_no + 1
    /\ started' = started \cup TasksOf(batch_no + 1)
    /\ groups' = groups + 1
    /\ pc' = "run"
    /\ UNCHANGED <<disk, dirs, local_commits, commits, force, batch_size,
                   local_files, local_committed_files, local_changes,
                   remote_update, remote_delete, overwriting_changes,
                   files_to_download, batches, completed, not_downloaded,
                   failure, ledger_before, disk_before, pulls, edits>>
    /\ UNCHANGED <<aggVars, walkVars, diffVars, progVars>>

\* download_file, api.py:362-367: the content arrives and is saved
DownloadFile(t) ==
    /\ pc = "run"
    /\ t \in Running
    /\ LET file == batches[t[1]][t[2]]
           path == normpath(full_path(file))
       IN  /\ disk' = [disk EXCEPT
                          ![path] = RemoteContent(file.item_id, file.last_version)]
           /\ dirs' = dirs \cup ({DirOf(path)} \ {<<>>})
    /\ completed' = completed \cup {t}
    /\ UNCHANGED <<local_commits, pc, commits, force, batch_size, local_files,
                   local_committed_files, local_changes, remote_update,
                   remote_delete, overwriting_changes, files_to_download, batches,
                   batch_no, started, not_downloaded, failure, ledger_before,
                   disk_before, groups, pulls, edits>>
    /\ UNCHANGED <<aggVars, walkVars, diffVars, progVars>>

\* A slip that swallows the exception (gather with return_exceptions): the
\* task ends and the pull goes on.
DownloadFailSwallowed(t) ==
    /\ pc = "run"
    /\ t \in Running
    /\ completed' = completed \cup {t}
    /\ failure' = "download"
    /\ UNCHANGED <<disk, dirs, local_commits, pc, commits, force, batch_size,
                   local_files, local_committed_files, local_changes,
                   remote_update, remote_delete, overwriting_changes,
                   files_to_download, batches, batch_no, started,
                   not_downloaded, ledger_before, disk_before, groups, pulls,
                   edits>>
    /\ UNCHANGED <<aggVars, walkVars, diffVars, progVars>>

\* download_file raises: gather hands the exception to download_files and pull
DownloadFail(t) ==
    /\ pc = "run"
    /\ t \in Running
    /\ pc' = "failed"
    /\ failure' = "download"
    /\ UNCHANGED <<disk, dirs, local_commits, commits, force, batch_size,
                   local_files, local_committed_files, local_changes,
                   remote_update, remote_delete, overwriting_changes,
                   files_to_download, batches, batch_no, started, completed,
                   not_downloaded, ledger_before, disk_before, groups, pulls,
                   edits>>
    /\ UNCHANGED <<aggVars, walkVars, diffVars, progVars>>

\* A slip that does not wait for the batch: the downloads are left running.
BatchDoneNoBarrier ==
    /\ pc = "run"
    /\ pc' = IF batch_no = Len(batches) THEN "commit" ELSE "batch"
    /\ UNCHANGED <<disk, dirs, local_commits, commits, force, batch_size,
                   local_files, local_committed_files, local_changes,
                   remote_update, remote_delete, overwriting_changes,
                   files_to_download, batches, batch_no, started, completed,
                   not_downloaded, failure, ledger_before, disk_before, groups,
                   pulls, edits>>
    /\ UNCHANGED <<aggVars, walkVars, diffVars, progVars>>

\* run_until_complete(gather(...)) returns once every download of the batch
\* is done
BatchDone ==
    /\ pc = "run"
    /\ TasksOf(batch_no) \subseteq completed
    /\ pc' = IF batch_no = Len(batches) THEN "commit" ELSE "batch"
    /\ UNCHANGED <<disk, dirs, local_commits, commits, force, batch_size,
                   local_files, local_committed_files, local_changes,
                   remote_update, remote_delete, overwriting_changes,
                   files_to_download, batches, batch_no, started, completed,
                   not_downloaded, failure, ledger_before, disk_before, groups,
                   pulls, edits>>
    /\ UNCHANGED <<aggVars, walkVars, diffVars, progVars>>

\* A slip that converts and appends the commits while the last batch is
\* still downloading.
PullCommitDuringBatch ==
    /\ pc \in {"commit", "run"}
    /\ local_commits' = local_commits \o
           SortByCreatedAt([i \in 1..Len(commits) |-> ToLocalCommit(commits[i], disk)],
                           <<>>)
    /\ not_downloaded' = IF ~force THEN overwriting_changes ELSE <<>>
    /\ pc' = "done"
    /\ UNCHANGED <<disk, dirs, commits, force, batch_size, local_files,
                   local_committed_files, local_changes, remote_update,
                   remote_delete, overwriting_changes, files_to_download, batches,
                   batch_no, started, completed, failure, ledger_before, disk_before, groups,
                   pulls, edits>>
    /\ UNCHANGED <<aggVars, walkVars, diffVars, progVars>>

\* Filesystem.pull, lines 98-110
PullCommit ==
    /\ pc = "commit"
    /\ local_commits' = local_commits \o
           SortByCreatedAt([i \in 1..Len(commits) |-> ToLocalCommit(commits[i], disk)],
                           <<>>)
    /\ not_downloaded' = IF ~force THEN overwriting_changes ELSE <<>>
    /\ pc' = "done"
    /\ UNCHANGED <<disk, dirs, commits, force, batch_size, local_files,
                   local_committed_files, local_changes, remote_update,
                   remote_delete, overwriting_changes, files_to_download, batches,
                   batch_no, started, completed, failure, ledger_before, disk_before, groups,
                   pulls, edits>>
    /\ UNCHANGED <<aggVars, walkVars, diffVars, progVars>>

\* pull has returned or raised: its frame is gone
PullReturn ==
    /\ pc \in {"done", "failed"}
    /\ pc' = "idle"
    /\ commits' = <<>>
    /\ force' = FALSE
    /\ batch_size' = DefaultBatchSize
    /\ local_files' = EmptyDict
    /\ local_committed_files' = {}
    /\ local_changes' = EmptyDict
    /\ remote_update' = <<>>
    /\ remote_delete' = <<>>
    /\ overwriting_changes' = <<>>
    /\ files_to_download' = <<>>
    /\ batches' = <<>>
    /\ batch_no' = 0
    /\ started' = {}
    /\ completed' = {}
    /\ not_downloaded' = <<>>
    /\ failure' = "none"
    /\ ledger_before' = <<>>
    /\ disk_before' = [p \in DiskPaths |-> NoFile]
    /\ groups' = 0
    /\ UNCHANGED <<disk, dirs, local_commits, pulls, edits>>
    /\ UNCHANGED <<aggVars, walkVars, diffVars, progVars>>

DownloadOne == \E t \in started : DownloadFile(t)

DownloadRaise == \E t \in started : DownloadFail(t)

(***************************************************************************)
(* GrabCadAPI.get_project_tree.  The remote tree has the root folder 0 and *)
(* the nodes 1..n; every node but the root has a parent folder with a      *)
(* smaller number.  get_folder_info answers with a fresh Folder whose      *)
(* children list is empty, and with the Triplets of the folder's children. *)
(***************************************************************************)
FOLDER == "folder"
FILE == "file"
RootFolder == 0

RemoteTrees ==
    UNION {{[parent |-> par, type |-> typ] :
                par \in {f \in [1..n -> 0..(n - 1)] : \A i \in 1..n : f[i] < i},
                typ \in [0..n -> {FOLDER, FILE}]} : n \in 0..MaxNodes}

WellFormedTree(t) ==
    /\ t.type[RootFolder] = FOLDER
    /\ \A i \in DOMAIN t.parent : t.type[t.parent[i]] = FOLDER

RECURSIVE SetToSeq(_)
SetToSeq(S) ==
    IF S = {} THEN <<>>
    ELSE LET least == CHOOSE x \in S : \A y \in S : x <= y
         IN  <<least>> \o SetToSeq(S \ {least})

\* folder_data['children'] as the server lists them
Triplets(t, folder) == SetToSeq({i \in DOMAIN t.parent : t.parent[i] = folder})

WalkIdle ==
    /\ tree = [parent |-> <<>>, type |-> [i \in {RootFolder} |-> FOLDER]]
    /\ wpc = "off"
    /\ to_visit = <<>>
    /\ buff = <<>>
    /\ pending = {}
    /\ children = EmptyDict
    /\ rounds = 0

WalkInit ==
    /\ tree \in {t \in RemoteTrees : WellFormedTree(t)}
    /\ wpc = "start"
    /\ to_visit = <<>>
    /\ buff = <<>>
    /\ pending = {}
    /\ children = EmptyDict
    /\ rounds = 0

PairsOf(folder) ==
    LET trip == Triplets(tree, folder)
    IN  [i \in 1..Len(trip) |-> <<folder, trip[i]>>]

\* api.py:331-334: the root folder is fetched, its children are to visit
WalkRoot ==
    /\ wpc = "start"
    /\ children' = [i \in {RootFolder} |-> <<>>]
    /\ to_visit' = PairsOf(RootFolder)
    /\ wpc' = "loop"
    /\ UNCHANGED <<tree, buff, pending, rounds>>
    /\ UNCHANGED <<pullVars, aggVars, diffVars, progVars>>

\* api.py:348-352: one turn of the loop starts a gather over to_visit
WalkRound ==
    /\ wpc = "loop"
    /\ to_visit # <<>>
    /\ buff' = <<>>
    /\ pending' = 1..Len(to_visit)
    /\ rounds' = rounds + 1
    /\ wpc' = "gather"
    /\ UNCHANGED <<tree, to_visit, children>>
    /\ UNCHANGED <<pullVars, aggVars, diffVars, progVars>>

\* A slip that drops the children of a resolved folder instead of queueing
\* them for the next gather.
FetchChildrenNoDescend(i) ==
    /\ wpc = "gather"
    /\ i \in pending
    /\ LET parent == to_visit[i][1]
           node == to_visit[i][2]
       IN  IF tree.type[node] = FILE
           THEN /\ children' = [children EXCEPT ![parent] = Append(@, node)]
                /\ buff' = buff
           ELSE /\ children' = [n \in DOMAIN children \cup {node} |->
                                   IF n = node THEN <<>> ELSE children[n]]
                /\ buff' = buff
    /\ pending' = pending \ {i}
    /\ UNCHANGED <<tree, wpc, to_visit, rounds>>
    /\ UNCHANGED <<pullVars, aggVars, diffVars, progVars>>

\* fetch_children, api.py:336-345: child.get(api) has answered
FetchChildren(i) ==
    /\ wpc = "gather"
    /\ i \in pending
    /\ LET parent == to_visit[i][1]
           node == to_visit[i][2]
       IN  IF tree.type[node] = FILE
           THEN /\ children' = [children EXCEPT ![parent] = Append(@, node)]
                /\ buff' = buff
           ELSE /\ children' = [n \in DOMAIN children \cup {node} |->
                                   IF n = node THEN <<>> ELSE children[n]]
                /\ buff' = buff \o PairsOf(node)
    /\ pending' = pending \ {i}
    /\ UNCHANGED <<tree, wpc, to_visit, rounds>>
    /\ UNCHANGED <<pullVars, aggVars, diffVars, progVars>>

\* child.get(api) raises out of the gather and of get_project_tree
FetchChildrenFail(i) ==
    /\ wpc = "gather"
    /\ i \in pending
    /\ wpc' = "failed"
    /\ UNCHANGED <<tree, to_visit, buff, pending, children, rounds>>
    /\ UNCHANGED <<pullVars, aggVars, diffVars, progVars>>

\* A slip that does not wait for the gather: the loop goes on with what the
\* buffer holds, the unanswered fetches are dropped.
WalkRoundDoneNoBarrier ==
    /\ wpc = "gather"
    /\ to_visit' = buff
    /\ pending' = {}
    /\ wpc' = "loop"
    /\ UNCHANGED <<tree, buff, children, rounds>>
    /\ UNCHANGED <<pullVars, aggVars, diffVars, progVars>>

\* api.py:353: the gather is over, to_visit = buff
WalkRoundDone ==
    /\ wpc = "gather"
    /\ pending = {}
    /\ to_visit' = buff
    /\ wpc' = "loop"
    /\ UNCHANGED <<tree, buff, pending, children, rounds>>
    /\ UNCHANGED <<pullVars, aggVars, diffVars, progVars>>

\* A slip that leaves the loop whatever is still to visit.
WalkReturnEarly ==
    /\ wpc = "loop"
    /\ wpc' = "done"
    /\ UNCHANGED <<tree, to_visit, buff, pending, children, rounds>>
    /\ UNCHANGED <<pullVars, aggVars, diffVars, progVars>>

\* api.py:348, 354: to_visit is empty, root_folder is returned
WalkReturn ==
    /\ wpc = "loop"
    /\ to_visit = <<>>
    /\ wpc' = "done"
    /\ UNCHANGED <<tree, to_visit, buff, pending, children, rounds>>
    /\ UNCHANGED <<pullVars, aggVars, diffVars, progVars>>

FetchOne == \E i \in pending : FetchChildren(i)

FetchRaise == \E i \in pending : FetchChildrenFail(i)

(***************************************************************************)
(* Filesystem._remove_files on its own: a working directory in any state   *)
(* and a list of files to delete, as file_changes makes it (one entry per  *)
(* item_id); the list is applied, and applied again.                       *)
(***************************************************************************)
MaxDeletes == 2

DeleteLists ==
    {fs \in SeqsUpTo(RemoteFiles, MaxDeletes) :
        \A i, j \in 1..Len(fs) : fs[i].item_id = fs[j].item_id => i = j}

RemoveInit ==
    /\ disk \in [DiskPaths -> {NoFile, "e1"}]
    /\ dirs \in {ds \in SUBSET SubDirs :
                    \A p \in DiskPaths :
                        disk[p] # NoFile /\ DirOf(p) # <<>> => DirOf(p) \in ds}
    /\ remote_delete \in DeleteLists
    /\ pc = "remove"
    /\ local_commits = <<>>
    /\ commits = <<>>
    /\ force = FALSE
    /\ batch_size = DefaultBatchSize
    /\ local_files = EmptyDict
    /\ local_committed_files = {}
    /\ local_changes = EmptyDict
    /\ remote_update = <<>>
    /\ overwriting_changes = <<>>
    /\ files_to_download = <<>>
    /\ batches = <<>>
    /\ batch_no = 0
    /\ started = {}
    /\ completed = {}
    /\ not_downloaded = <<>>
    /\ failure = "none"
    /\ ledger_before = <<>>
    /\ disk_before = disk
    /\ groups = 0
    /\ pulls = 0
    /\ edits = 0

\* _remove_files(remote_delete), filesystem.py:112-125
RemoveFiles ==
    /\ pc \in {"remove", "removed"}
    /\ LET fs == remove_files(remote_delete, [disk |-> disk, dirs |-> dirs])
       IN  /\ disk' = fs.disk
           /\ dirs' = fs.dirs
    /\ pc' = IF pc = "remove" THEN "removed" ELSE "removed again"
    /\ UNCHANGED <<local_commits, commits, force, batch_size, local_files,
                   local_committed_files, local_changes, remote_update,
                   remote_delete, overwriting_changes, files_to_download, batches,
                   batch_no, started, completed, not_downloaded, failure,
                   ledger_before, disk_before, groups, pulls, edits>>
    /\ UNCHANGED <<aggVars, walkVars, diffVars, progVars>>

(***************************************************************************)
(* BatchDownloadProgress (entities/files.py).  No code of src/ calls it;   *)
(* the batch is registered with add, then its download tasks report with   *)
(* update_progress, and render may be called at any time.  The calls come   *)
(* from coroutines of one event loop and none of the methods awaits, so a   *)
(* call runs from its first to its last line without another in between.    *)
(* int(a / b * 100) is the floor of 100 * a / b for every b up to 40.       *)
(***************************************************************************)
MaxFiles == 2
ProgTasks == 1..MaxFiles
ProgNames == {"a", "b"}
ProgSizes == {0, 2, 5}
ProgChunks == {1, 2}
ProgIncrements == {10, 50}

RECURSIVE SumOver(_, _)
SumOver(f, S) ==
    IF S = {} THEN 0
    ELSE LET x == CHOOSE y \in S : TRUE IN f[x] + SumOver(f, S \ {x})

ProgIdle ==
    /\ expected_batch_size = 20
    /\ increment = 10
    /\ quiet = FALSE
    /\ downloads = EmptyDict
    /\ last_progress = 0
    /\ is_first_render = TRUE
    /\ total_downloaded = 0
    /\ total_size = 0
    /\ tpc = "off"
    /\ file_name = <<>>
    /\ file_size = <<>>
    /\ added = {}
    /\ received = <<>>
    /\ rendered = "-"
    /\ out = <<>>

ProgInit ==
    /\ expected_batch_size \in 1..MaxFiles
    /\ increment \in ProgIncrements
    /\ quiet \in BOOLEAN
    /\ downloads = EmptyDict
    /\ last_progress = 0
    /\ is_first_render = TRUE
    /\ total_downloaded = 0
    /\ total_size = 0
    /\ tpc = "filling"
    /\ file_name \in [ProgTasks -> ProgNames]
    /\ file_size \in [ProgTasks -> ProgSizes]
    /\ added = {}
    /\ received = [t \in ProgTasks |-> 0]
    /\ rendered = "-"
    /\ out = <<>>

\* overall_progress, files.py:124-126, for a total_size that is not 0
overall_progress(downloaded, total) == (100 * downloaded) \div total

\* add, files.py:128-130, with a fresh FileDownloadProgress
ProgAdd(t) ==
    /\ tpc = "filling"
    /\ t \notin added
    /\ downloads' = [n \in DOMAIN downloads \cup {file_name[t]} |->
                        IF n = file_name[t]
                        THEN [size |-> file_size[t], downloaded |-> 0]
                        ELSE downloads[n]]
    /\ total_size' = total_size + file_size[t]
    /\ added' = added \cup {t}
    /\ rendered' = "-"
    /\ UNCHANGED <<expected_batch_size, increment, quiet, last_progress,
                   is_first_render, total_downloaded, tpc, file_name, file_size,
                   received, out>>
    /\ UNCHANGED <<pullVars, aggVars, walkVars, diffVars>>

\* the batch is registered, its downloads start
ProgStart ==
    /\ tpc = "filling"
    /\ tpc' = "running"
    /\ rendered' = "-"
    /\ UNCHANGED <<expected_batch_size, increment, quiet, downloads, last_progress,
                   is_first_render, total_downloaded, total_size, file_name,
                   file_size, added, received, out>>
    /\ UNCHANGED <<pullVars, aggVars, walkVars, diffVars>>

\* A slip that rebuilds the total from the file's own counter.
UpdateProgressFromFile(t, n) ==
    /\ tpc = "running"
    /\ t \in added
    /\ received[t] + n <= file_size[t]
    /\ downloads' = [downloads EXCEPT ![file_name[t]].downloaded = @ + n]
    /\ total_downloaded' = downloads[file_name[t]].downloaded + n
    /\ received' = [received EXCEPT ![t] = @ + n]
    /\ rendered' = "-"
    /\ UNCHANGED <<expected_batch_size, increment, quiet, last_progress,
                   is_first_render, total_size, tpc, file_name, file_size, added,
                   out>>
    /\ UNCHANGED <<pullVars, aggVars, walkVars, diffVars>>

\* update_progress, files.py:135-137: task t reports n more bytes of its file
UpdateProgress(t, n) ==
    /\ tpc = "running"
    /\ t \in added
    /\ received[t] + n <= file_size[t]
    /\ downloads' = [downloads EXCEPT ![file_name[t]].downloaded = @ + n]
    /\ total_downloaded' = total_downloaded + n
    /\ received' = [received EXCEPT ![t] = @ + n]
    /\ rendered' = "-"
    /\ UNCHANGED <<expected_batch_size, increment, quiet, last_progress,
                   is_first_render, total_size, tpc, file_name, file_size, added,
                   out>>
    /\ UNCHANGED <<pullVars, aggVars, walkVars, diffVars>>

\* render, files.py:139-153
Render ==
    /\ tpc \in {"filling", "running"}
    /\ IF Cardinality(DOMAIN downloads) < expected_batch_size \/ quiet
       THEN /\ rendered' = "none"
            /\ UNCHANGED <<last_progress, is_first_render, out, tpc>>
       ELSE IF is_first_render
       THEN IF total_size = 0
            THEN \* the listing is printed, then overall_progress divides by 0
                 /\ out' = Append(out, [kind |-> "listing", percent |-> 0])
                 /\ rendered' = "raised"
                 /\ tpc' = "raised"
                 /\ UNCHANGED <<last_progress, is_first_render>>
            ELSE /\ out' = Append(out,
                        [kind |-> "listing",
                         percent |-> overall_progress(total_downloaded, total_size)])
                 /\ last_progress' = overall_progress(total_downloaded, total_size)
                 /\ is_first_render' = FALSE
                 /\ rendered' = "listing"
                 /\ UNCHANGED tpc
       ELSE IF overall_progress(total_downloaded, total_size) - last_progress > increment
       THEN /\ last_progress' = overall_progress(total_downloaded, total_size)
            /\ out' = Append(out,
                   [kind |-> "update",
                    percent |-> overall_progress(total_downloaded, total_size)])
            /\ rendered' = "update"
            /\ UNCHANGED <<is_first_render, tpc>>
       ELSE /\ rendered' = "none"
            /\ UNCHANGED <<last_progress, is_first_render, out, tpc>>
    /\ UNCHANGED <<expected_batch_size, increment, quiet, downloads,
                   total_downloaded, total_size, file_name, file_size, added,
                   received>>
    /\ UNCHANGED <<pullVars, aggVars, walkVars, diffVars>>

AddOne == \E t \in ProgTasks : ProgAdd(t)

UpdateOne == \E t \in ProgTasks, n \in ProgChunks : UpdateProgress(t, n)

(***************************************************************************)
(* The specifications: the pulls on a working directory, the aggregation   *)
(* of a commit list, the walk over a remote tree.                          *)
(***************************************************************************)
Init == PullInit /\ AggIdle /\ WalkIdle /\ DiffIdle /\ ProgIdle

Next ==
    \/ UserEdit
    \/ FsPull
    \/ CliPull
    \/ FetchInfo
    \/ FetchInfoFail
    \/ BatchStart
    \/ DownloadOne
    \/ DownloadRaise
    \/ BatchDone
    \/ PullCommit
    \/ PullReturn
    \/ Diff
    \/ DiffReturn

Spec == Init /\ [][Next]_vars

AggStart == AggInit /\ PullInit /\ WalkIdle /\ DiffIdle /\ ProgIdle

AggNext == AggAppend \/ AggApply

SpecAgg == AggStart /\ [][AggNext]_vars

WalkStart == WalkInit /\ PullInit /\ AggIdle /\ DiffIdle /\ ProgIdle

WalkStep ==
    \/ WalkRoot
    \/ WalkRound
    \/ FetchOne
    \/ FetchRaise
    \/ WalkRoundDone
    \/ WalkReturn

SpecWalk == WalkStart /\ [][WalkStep]_vars

\* run_until_complete drives the event loop until the gather is done: a fetch
\* that can answer does, and the driver goes on after each gather
SpecWalkLive ==
    /\ WalkStart
    /\ [][WalkStep]_vars
    /\ WF_vars(WalkRoot)
    /\ WF_vars(WalkRound)
    /\ WF_vars(FetchOne)
    /\ WF_vars(WalkRoundDone)
    /\ WF_vars(WalkReturn)

ProgBegin == ProgInit /\ PullInit /\ AggIdle /\ WalkIdle /\ DiffIdle

ProgNext == AddOne \/ ProgStart \/ UpdateOne \/ Render

SpecProgress == ProgBegin /\ [][ProgNext]_vars

RemoveBegin == RemoveInit /\ AggIdle /\ WalkIdle /\ DiffIdle /\ ProgIdle

SpecRemove == RemoveBegin /\ [][RemoveFiles]_vars

(***************************************************************************)
(* Notions the properties of pull are stated with.  A file on disk is      *)
(* locally modified when its digest, taken when the pull begins, is not a  *)
(* digest of the baseline, the changed files of the ledger's commits.      *)
(***************************************************************************)
Resolved == pc \in {"batch", "run", "commit", "done"}

LocallyModified ==
    {x \in local_file_list(disk_before) :
        x.digest \notin BaselineDigests(ledger_before)}

\* the remote update `file` would be written over the locally modified x
Targets(file, x) ==
    /\ file.filename = x.filename
    /\ normpath(full_path(file)) = normpath(local_full_path(x))

IsConflict(file) == \E x \in LocallyModified : Targets(file, x)

(***************************************************************************)
(* C2.  In a pull without force, every remote update whose filename and    *)
(* full path are those of a locally modified file is returned in the held  *)
(* back list and is not in the download list.                              *)
(***************************************************************************)
C2_ConflictsHeldBack ==
    (pc = "done" /\ ~force) =>
        \A file \in Range(remote_update) :
            IsConflict(file) =>
                /\ file \in Range(not_downloaded)
                /\ file \notin Range(files_to_download)

(***************************************************************************)
(* C3.  In a pull without force, every remote update that is no conflict   *)
(* is in the download list and not in the held back list, also when its    *)
(* filename is that of a locally modified file at another path.            *)
(***************************************************************************)
C3_NonConflictsDownloaded ==
    (pc = "done" /\ ~force) =>
        \A file \in Range(remote_update) :
            ~IsConflict(file) =>
                /\ file \in Range(files_to_download)
                /\ file \notin Range(not_downloaded)

(***************************************************************************)
(* C4.  In a pull with force the held back list is empty and the download  *)
(* list is the whole list of remote updates.                               *)
(***************************************************************************)
C4_ForceDownloadsAll ==
    force =>
        /\ Resolved => files_to_download = remote_update
        /\ pc = "done" => not_downloaded = <<>>

\* a forced pull has returned although an update hits a locally modified file
C4_Witness ==
    /\ pc = "done"
    /\ force
    /\ \E file \in Range(remote_update) : IsConflict(file)
    /\ Len(files_to_download) >= 2

(***************************************************************************)
(* C5.  The keys of the locally-modified mapping that pull computes are    *)
(* exactly the filenames of the files on disk whose digest is not a digest *)
(* of the baseline.                                                        *)
(***************************************************************************)
C5_LocalChangesExact ==
    Resolved => DOMAIN local_changes = {x.filename : x \in LocallyModified}

(***************************************************************************)
(* C6.  When a file on disk is locally modified and a remote update has    *)
(* the same path, a pull without force leaves the file's content as it was *)
(* and returns the update in the held back list; a pull with force writes  *)
(* the newest remote version over it and returns an empty list.            *)
(***************************************************************************)
C6_HandEditKeptUnlessForced ==
    pc = "done" =>
        \A file \in Range(remote_update) :
            IsConflict(file) =>
                LET path == normpath(full_path(file))
                IN  IF force
                    THEN /\ disk[path] = RemoteContent(file.item_id,
                                             get_file_info(file.item_id).last_version)
                         /\ not_downloaded = <<>>
                    ELSE /\ disk[path] = disk_before[path]
                         /\ file \in Range(not_downloaded)

(***************************************************************************)
(* C7.  If a metadata fetch or a download fails, the pull raises, starts   *)
(* no further download batch, and leaves the ledger as it was before the   *)
(* pull: none of the commits is appended.                                  *)
(***************************************************************************)
C7_FailureLeavesLedger ==
    [][/\ failure' # "none" =>
            /\ pc' = "failed"
            /\ local_commits' = ledger_before'
            /\ local_commits' = local_commits
       /\ pc = "failed" => (groups' <= groups /\ started' \subseteq started)]_vars

\* a download of the first of two batches has failed
C7_Witness ==
    /\ pc = "failed"
    /\ failure = "download"
    /\ commits # <<>>
    /\ groups = 1
    /\ Len(batches) = 2
    /\ local_commits = ledger_before

(***************************************************************************)
(* C8.  After any sequence of pulls the commit ids in the ledger are       *)
(* pairwise distinct.                                                      *)
(***************************************************************************)
C8_LedgerIdsDistinct ==
    \A i, j \in 1..Len(local_commits) :
        i # j => local_commits[i].commit_id # local_commits[j].commit_id

(***************************************************************************)
(* C9.  A download list of m files is cut into ceil(m / b) groups, b the   *)
(* batch size: consecutive slices in the list's order, each of at most b   *)
(* files; pull issues exactly these groups, at most b downloads run at a   *)
(* time, and no download of a group starts before every download of the    *)
(* groups before it has ended.                                             *)
(***************************************************************************)
C9_BatchesAndBarrier ==
    Resolved =>
        /\ Len(batches) * batch_size >= Len(files_to_download)
        /\ (Len(batches) - 1) * batch_size < Len(files_to_download)
               \/ (batches = <<>> /\ files_to_download = <<>>)
        /\ Concat(batches) = files_to_download
        /\ \A k \in 1..Len(batches) : Len(batches[k]) \in 1..batch_size
        /\ groups = batch_no
        /\ groups <= Len(batches)
        /\ pc \in {"commit", "done"} => groups = Len(batches)
        /\ started = UNION {TasksOf(k) : k \in 1..batch_no}
        /\ Cardinality(Running) <= batch_size
        /\ \A t \in started :
              \A k \in 1..(t[1] - 1) : TasksOf(k) \subseteq completed

\* the second of two groups is running, the first has ended
C9_Witness ==
    /\ pc = "run"
    /\ batch_no = 2
    /\ Len(files_to_download) = 3
    /\ batch_size = 2
    /\ Cardinality(Running) = 1

\* the nodes found from a Folder object through the children lists
ChildrenOfObject(node) == IF node \in DOMAIN children THEN Range(children[node]) ELSE {}

RECURSIVE ReachableFrom(_)
ReachableFrom(node) ==
    {node} \cup UNION {ReachableFrom(c) : c \in ChildrenOfObject(node)}

(***************************************************************************)
(* C10.  When get_project_tree returns, the returned tree is complete:     *)
(* every node of the remote tree, folder or file, is in the children list  *)
(* of its parent, so the nodes reachable from the returned root are all    *)
(* the nodes of the remote tree.                                           *)
(***************************************************************************)
C10_TreeComplete ==
    wpc = "done" =>
        /\ \A i \in DOMAIN tree.parent : i \in ChildrenOfObject(tree.parent[i])
        /\ Cardinality(ReachableFrom(RootFolder)) = Cardinality(DOMAIN tree.type)

\* the changes of the list that name the item, and its entries in the result
AggNamed(item) == {ch \in Range(AllChanges(aggCommits)) : ch.file.item_id = item}

AggIsMax(ch) ==
    \A other \in AggNamed(ch.file.item_id) :
        other.file.last_version <= ch.file.last_version

AggEntries(item) ==
    {<<"changed", i>> : i \in {j \in 1..Len(aggResult.changed) :
                                 aggResult.changed[j].item_id = item}}
    \cup
    {<<"deleted", i>> : i \in {j \in 1..Len(aggResult.deleted) :
                                 aggResult.deleted[j].item_id = item}}

(***************************************************************************)
(* C1.  For every commit list, file_changes returns exactly one entry for  *)
(* each item_id named by a change: a change of the list that carries the   *)
(* greatest version among the changes naming that item_id, whatever its    *)
(* kind.  The non-Deleted winners are the changed list, the Deleted        *)
(* winners the deleted list, and no item_id is in both.                    *)
(***************************************************************************)
C1_LatestVersionWins ==
    aggPc = "done" =>
        /\ \A item \in AggItems :
              IF AggNamed(item) = {} THEN AggEntries(item) = {}
              ELSE /\ Cardinality(AggEntries(item)) = 1
                   /\ \E ch \in AggNamed(item) :
                         /\ AggIsMax(ch)
                         /\ IF ch.change_code = DELETED
                            THEN ch.file \in Range(aggResult.deleted)
                            ELSE ch.file \in Range(aggResult.changed)
        /\ \A f \in Range(aggResult.changed), g \in Range(aggResult.deleted) :
              f.item_id # g.item_id

\* a Deleted change loses against an Added/Updated change of a higher version
C1_Witness ==
    /\ aggPc = "done"
    /\ \E d \in Range(AllChanges(aggCommits)), u \in Range(AllChanges(aggCommits)) :
          /\ d.file.item_id = u.file.item_id
          /\ d.change_code = DELETED
          /\ u.change_code # DELETED
          /\ d.file.last_version < u.file.last_version
          /\ u.file \in Range(aggResult.changed)
          /\ \A g \in Range(aggResult.deleted) : g.item_id # d.file.item_id

\* the number of tree levels below the root
RECURSIVE LevelOf(_, _)
LevelOf(t, node) == IF node = RootFolder THEN 0 ELSE 1 + LevelOf(t, t.parent[node])

TreeDepth(t) ==
    LET levels == {LevelOf(t, i) : i \in DOMAIN t.type}
    IN  CHOOSE d \in levels : \A e \in levels : e <= d

(***************************************************************************)
(* C11.  A walk that returns has run exactly as many gathers as the remote *)
(* tree has levels below the root, however many nodes a level holds.       *)
(***************************************************************************)
C11_RoundsEqualDepth ==
    wpc = "done" => rounds = TreeDepth(tree)

\* a returned walk over two levels, the first of them holding two nodes
C11_Witness ==
    /\ wpc = "done"
    /\ TreeDepth(tree) = 2
    /\ rounds = 2
    /\ Cardinality({i \in DOMAIN tree.parent : tree.parent[i] = RootFolder}) = 2

\* the commits of a list whose commit id does not occur in another list
NotIn(cs, others) ==
    {c \in Range(cs) : \A o \in Range(others) : o.commit_id # c.commit_id}

(***************************************************************************)
(* C12.  State.diff leaves the ledger as it is and returns, first, exactly *)
(* the ledger commits whose commit id does not occur in the remote list    *)
(* and, second, exactly the remote commits whose commit id does not occur  *)
(* in the ledger; a commit id of both sides is in neither.                 *)
(***************************************************************************)
C12_DiffExact ==
    [][pc' = "diffed" =>
          /\ local_commits' = local_commits
          /\ local_not_in_remote' = NotIn(local_commits, diff_other')
          /\ remote_not_in_local' = NotIn(diff_other', local_commits)]_vars

\* the percent complete of the batch, from the bytes the tasks have reported
PercentComplete ==
    (100 * SumOver(received, added)) \div SumOver(file_size, added)

(***************************************************************************)
(* C13.  A render that is not quiet prints nothing while fewer files than  *)
(* expected_batch_size are registered; from then on the first thing        *)
(* printed is the listing, printed once, and a later render prints an      *)
(* update if and only if the percent complete is at least `increment`      *)
(* above the percent of the last print.                                    *)
(***************************************************************************)
C13_RenderPolicy ==
    (rendered \in {"none", "listing", "update"} /\ ~quiet) =>
        IF Cardinality(DOMAIN downloads) < expected_batch_size
        THEN rendered = "none" /\ out = <<>>
        ELSE /\ out # <<>>
             /\ \A i \in 1..Len(out) : (out[i].kind = "listing") <=> (i = 1)
             /\ rendered = "listing" => Len(out) = 1
             /\ rendered = "update" =>
                    /\ Len(out) > 1
                    /\ out[Len(out)].percent = PercentComplete
                    /\ out[Len(out)].percent - out[Len(out) - 1].percent >= increment
             /\ rendered = "none" =>
                    PercentComplete - out[Len(out)].percent < increment

\* the paths on disk the delete list names
DeletePaths == {normpath(full_path(f)) : f \in Range(remote_delete)}

(***************************************************************************)
(* C14.  _remove_files goes through its whole list although a file of it   *)
(* is absent already or a directory cannot be removed because it is not    *)
(* empty: afterwards every file of the list is absent, every other file    *)
(* is as it was, a directory that still holds a file exists; and applying  *)
(* the list a second time changes neither a file nor a directory.          *)
(***************************************************************************)
C14_RemoveIsBenign ==
    [][pc' \in {"removed", "removed again"} =>
          /\ \A p \in DeletePaths : disk'[p] = NoFile
          /\ \A p \in DiskPaths \ DeletePaths : disk'[p] = disk_before[p]
          /\ \A p \in DiskPaths :
                 disk'[p] # NoFile /\ DirOf(p) # <<>> => DirOf(p) \in dirs'
          /\ pc = "removed" => disk' = disk /\ dirs' = dirs]_vars

\* a list of two whose first file was absent and whose second was not, in a
\* directory that another file kept from being removed
C14_Witness ==
    /\ pc = "removed again"
    /\ Len(remote_delete) = 2
    /\ disk_before[normpath(full_path(remote_delete[1]))] = NoFile
    /\ disk_before[normpath(full_path(remote_delete[2]))] # NoFile
    /\ \E p \in DiskPaths \ DeletePaths :
          /\ disk[p] # NoFile
          /\ DirOf(p) = normpath(path_without_root_folder(remote_delete[2].path))
          /\ DirOf(p) \in dirs

\* the references of a tree level, each with the folder that lists it
LevelPairs(level) ==
    {<<tree.parent[i], i>> : i \in {j \in DOMAIN tree.parent : LevelOf(tree, j) = level}}

\* the nodes whose fetch has answered: a File is in its parent's children, a
\* Folder has its own children list
ResolvedNodes ==
    (DOMAIN children \ {RootFolder}) \cup UNION {Range(children[n]) : n \in DOMAIN children}

(***************************************************************************)
(* C15.  During a walk no node of level k+1 is resolved while a node of    *)
(* level k is not, and the list to visit for level k+1 holds exactly the   *)
(* children of the folders of level k, each once and each paired with the  *)
(* folder that lists it.                                                   *)
(***************************************************************************)
C15_LevelsInOrder ==
    /\ \A n \in ResolvedNodes :
          \A m \in DOMAIN tree.parent :
              LevelOf(tree, m) < LevelOf(tree, n) => m \in ResolvedNodes
    /\ wpc \in {"loop", "gather", "done"} =>
          /\ Range(to_visit) =
                 LevelPairs(IF wpc = "gather" THEN rounds ELSE rounds + 1)
          /\ \A i, j \in 1..Len(to_visit) : to_visit[i] = to_visit[j] => i = j

\* the second gather has resolved a node of the second level; the first
\* level held a folder and one more node
C15_Witness ==
    /\ wpc = "gather"
    /\ rounds = 2
    /\ \E i \in 1..Len(to_visit) : i \notin pending /\ to_visit[i][2] \in ResolvedNodes
    /\ Cardinality(LevelPairs(1)) = 2

(***************************************************************************)
(* C16.  A walk none of whose fetches fails returns in the end; it returns *)
(* only with nothing left to visit, and with nothing left to visit it      *)
(* starts no further gather.                                               *)
(***************************************************************************)
C16_WalkTerminates ==
    /\ [](wpc # "failed") => <>(wpc = "done")
    /\ [](wpc = "done" => to_visit = <<>> /\ pending = {})
    /\ [][wpc = "loop" /\ to_visit = <<>> => wpc' = "done"]_vars

\* a returned walk over a chain of folders as deep as the tree may be
C16_Witness ==
    /\ wpc = "done"
    /\ to_visit = <<>>
    /\ rounds = MaxNodes
    /\ \A i \in DOMAIN tree.type : tree.type[i] = FOLDER

\* every download_file task of the pull
AllTasks == UNION {TasksOf(k) : k \in 1..Len(batches)}

(***************************************************************************)
(* C17.  The phases of a pull come in order.  When the metadata is being   *)
(* fetched the digests of the files on disk have been computed, on the     *)
(* disk as it was before the removal, and the files to delete are gone;    *)
(* no download has started and the ledger is as before.  The ledger stays  *)
(* as before while the batches run.  The steps that compute digests (the   *)
(* start of the pull and the conversion of the commits) and the step that  *)
(* changes the ledger happen with no download started and not ended; the   *)
(* ledger is changed only once every batch has been started and every      *)
(* download has ended.                                                     *)
(***************************************************************************)
C17_PhasesInOrder ==
    /\ [](pc = "info" =>
             /\ local_files \in LocalFilesDicts(disk_before)
             /\ \A f \in Range(remote_delete) : disk[normpath(full_path(f))] = NoFile
             /\ started = {}
             /\ local_commits = ledger_before)
    /\ [](pc \in {"batch", "run"} => local_commits = ledger_before)
    /\ [][/\ ((pc = "idle" /\ pc' = "info") \/ pc' = "done") =>
                (started \ completed = {} /\ started' \ completed' = {})
          /\ local_commits' # local_commits =>
                /\ pc = "commit"
                /\ batch_no = Len(batches)
                /\ started = AllTasks
                /\ completed = AllTasks]_vars

\* a pull that removed a file that was on disk, ran two batches and extended
\* the ledger
C17_Witness ==
    /\ pc = "done"
    /\ Len(batches) = 2
    /\ completed = AllTasks
    /\ \E f \in Range(remote_delete) : disk_before[normpath(full_path(f))] # NoFile
    /\ Len(local_commits) > Len(ledger_before)

\* the entries a pull has appended to the ledger
Appended(before, after) == SubSeq(after, Len(before) + 1, Len(after))

(***************************************************************************)
(* C18.  The step of pull that extends the ledger keeps the stored entries *)
(* as an unchanged prefix and appends the incoming commits, each once, in  *)
(* ascending order of created_at; last_local_commit then returns the last  *)
(* appended entry, which is the incoming commit created last.  On an       *)
(* empty ledger last_local_commit returns None.                            *)
(***************************************************************************)
C18_AppendInOrder ==
    /\ [][local_commits' # local_commits =>
             LET new == Appended(local_commits, local_commits')
             IN  /\ Len(local_commits') = Len(local_commits) + Len(commits)
                 /\ SubSeq(local_commits', 1, Len(local_commits)) = local_commits
                 /\ \A i \in 1..(Len(new) - 1) : new[i].created_at <= new[i + 1].created_at
                 /\ \A c \in Range(commits) :
                        Cardinality({i \in 1..Len(new) : new[i].commit_id = c.commit_id})
                            = Cardinality({i \in 1..Len(commits) :
                                             commits[i].commit_id = c.commit_id})
                 /\ last_local_commit(local_commits') = <<new[Len(new)]>>
                 /\ \A c \in Range(commits) :
                        c.created_at <= last_local_commit(local_commits')[1].created_at]_vars
    /\ [](local_commits = <<>> => last_local_commit(local_commits) = <<>>)

\* two commits handed over newest first were appended to a ledger that was
\* not empty
C18_Witness ==
    /\ pc = "done"
    /\ ledger_before # <<>>
    /\ Len(commits) = 2
    /\ commits[1].created_at > commits[2].created_at
    /\ Len(local_commits) = Len(ledger_before) + 2
    /\ local_commits[Len(local_commits)].commit_id = commits[1].commit_id

\* the downloaded counters of the registered FileDownloadProgress objects
FileCounters == [n \in DOMAIN downloads |-> downloads[n].downloaded]

HeldBackBefore(file) ==
    LET path == normpath(full_path(file))
    IN  /\ disk_before[path] \in EditContents
        /\ \E c \in Range(ledger_before) :
              \E ch \in Range(c.changes) :
                  /\ normpath(full_path(ch.file)) = path
                  /\ ch.file.digest = file_digest(disk_before, path)
                  /\ ch.file.last_version < file.last_version

(***************************************************************************)
(* C20.  A pull without force that holds back the update of a locally      *)
(* modified file does not store the digest of the hand-written bytes as    *)
(* the baseline; and when a later pull without force brings a newer update *)
(* for a path whose hand-written bytes an earlier pull has left in place   *)
(* and that have not changed since, that update is held back again and     *)
(* the bytes stay.                                                         *)
(***************************************************************************)
C20_HeldBackStaysProtected ==
    (pc = "done" /\ ~force) =>
        /\ \A x \in LocallyModified :
              \A file \in Range(not_downloaded) :
                  (/\ Targets(file, x)
                   /\ disk[normpath(full_path(file))] = disk_before[normpath(full_path(file))])
                  => x.digest \notin BaselineDigests(local_commits)
        /\ \A file \in Range(remote_update) :
              HeldBackBefore(file) =>
                  /\ file \in Range(not_downloaded)
                  /\ disk[normpath(full_path(file))] = disk_before[normpath(full_path(file))]

(***************************************************************************)
(* C21.  A pull without force removes no locally modified file: a file     *)
(* that was on disk when the pull began with a digest that is not in the   *)
(* baseline is still on disk once the files to delete have been removed,   *)
(* also when one of them has its path.                                     *)
(***************************************************************************)
C21_DeleteSparesLocalEdits ==
    (pc \in {"info", "batch", "run", "commit", "done", "failed"} /\ ~force) =>
        \A x \in LocallyModified : disk[normpath(local_full_path(x))] # NoFile

====
